---- MODULE Spec2Model ----
(***************************************************************************)
(* WhisperSTTSession (src/features/common/ai/providers/zen.js): the        *)
(* connection lifecycle, the audio sink and the segment reconciler of one  *)
(* speech-to-text session, driven by its caller (initialize, close,        *)
(* sendRealtimeInput, createSTT's callback wiring), by the 10 s timer and  *)
(* by the events of the `ws` transport (open, message, error, close);       *)
(* its pure helpers (model name mapping, resampler); and the update and    *)
(* delete operations of the two prompt preset repositories (SQLite:        *)
(* unnamed/part_000, Firestore: repositories/preset/firebase.repository.js)*)
(* called by several users.                                                *)
(***************************************************************************)
EXTENDS Integers, Sequences, FiniteSets, TLC

\* ---------------------------------------------------------------- bounds
MaxSegs == 2      \* segments in one inbound message
MaxEmit == 2      \* transcription events recorded in the history
MaxWire == 2      \* audio frames recorded on the wire
MaxBytes == 2     \* bytes in one sendRealtimeInput buffer
MaxPcmBytes == 120 \* bytes in one buffer given to the resampler
MaxPresets == 2   \* presets ever created in one repository

\* ------------------------------------------------------------ input sets
\* Segment texts as sequences of characters: '', 'a', ' a' and 'b'.
Texts == { <<>>, <<"a">>, <<" ", "a">>, <<"b">> }

\* A segment that is not completed never has its text read.
Segments == [text : Texts, completed : {TRUE}]
            \cup { [text |-> <<"a">>, completed |-> FALSE] }

SegLists == UNION { [1..n -> Segments] : n \in 0..MaxSegs }

\* the segment lists delivered while the whole lifecycle is explored: one
\* completed segment, 'a' or 'b'
LifeSegLists ==
    { segs \in SegLists : /\ Len(segs) = 1
                          /\ segs[1].completed
                          /\ segs[1].text \in { <<"a">>, <<"b">> } }

NoSegs == <<[text |-> <<"-">>, completed |-> FALSE]>>

\* the table of _mapModelName
ModelTable ==
    ("whisper-tiny" :> "tiny") @@ ("whisper-base" :> "base")
    @@ ("whisper-small" :> "small") @@ ("whisper-medium" :> "medium")

\* property names the object literal `map` inherits from Object.prototype
InheritedKeys == {"constructor", "toString"}

\* what map[key] evaluates to for an inherited key: a function, not a string
InheritedMember == "Object.prototype member"

Undefined == "undefined"

\* config.model before the handshake is built
NoValue == "none"

\* model identifiers a session is constructed with
Models == DOMAIN ModelTable \cup {"whisper-large", ""} \cup InheritedKeys

\* buffer lengths given to the resampler: every short one and one second
PcmLengths == 0..MaxPcmBytes \cup {48000}

INPUT_SAMPLE_RATE == 24000
TARGET_SAMPLE_RATE == 16000

Users == {"u1", "u2"}
Repos == {"sqlite", "firestore"}
PresetIds == 1..MaxPresets
\* the title a preset is created with, and the one update() writes
CreatedTitle == "t0"
UpdatedTitle == "t1"

\* no row / no document under an id
Absent == [uid |-> "-", title |-> "-"]

\* no Firestore call in flight
NoCall == [op |-> "none", id |-> 0]

VARIABLES
    pcInit,                 \* position of initialize()
    wsSet,                  \* this.ws # null
    sock,                   \* the WebSocket object created by initialize()
    isRunning,              \* this.isRunning
    serverReady,            \* this.serverReady
    timeout,                \* the 10 s timer is armed
    emittedCompletedCount,  \* this.emittedCompletedCount
    lastEmittedText,        \* this.lastEmittedText
    listeners,              \* events that have a subscriber on the session
    wire,                   \* ws.send frames and ws.close calls, in order
    emitted,                \* emit('transcription') calls, in order
    uncaught,               \* an exception escaped a transport event handler
    readyG,                 \* SERVER_READY received, no close()/closure since
    closedG,                \* close() or a transport closure has happened
    earlyClose,             \* close() ran while initialize() awaited the start
    shrunk,                 \* a message's completed list was shorter than before
    lastSegs,               \* segment list of the last segment message handled
    repeated,               \* that message repeated the list of the one before
    growth,                 \* messages so far, each extending the one before; -1 otherwise
    closeCode,              \* code the transport closed with, 0 while not closed
    lastEmits,              \* this.emit calls made by the last step, in order
    closeRaised,            \* an exception escaped close()
    closedAfterAttach,      \* close() ran after createSTT wired the callbacks
    closeCalled,            \* the body of close() has run
    lastEvent,              \* the operation or event that ran last
    model,                  \* this.model
    configModel,            \* config.model of the handshake built at open
    pcmBytes,               \* length of the buffer the resampler was given last
    outSamples,             \* samples in the buffer it returned
    backend,                \* the preset repository in use: SQLite or Firestore
    presets,                \* its prompt_presets rows / documents, by id
    created,                \* presets ever created in it
    pending,                \* the Firestore call of each user between its getDoc and its write
    outcome,                \* how the last repository step ended
    actor                   \* user, operation and preset id of the last repository step

vars == << pcInit, wsSet, sock, isRunning, serverReady, timeout,
           emittedCompletedCount, lastEmittedText, listeners, wire, emitted,
           uncaught, readyG, closedG, earlyClose, shrunk, lastSegs, repeated,
           growth, closeCode, lastEmits, closeRaised, closedAfterAttach,
           closeCalled, lastEvent, model, configModel, pcmBytes, outSamples,
           backend, presets, created, pending, outcome, actor >>

\* ---------------------------------------------------------- pure helpers
\* map[model]: an own property of the table, else a member inherited from
\* Object.prototype, else undefined
Lookup(m) ==
    IF m \in DOMAIN ModelTable THEN ModelTable[m]
    ELSE IF m \in InheritedKeys THEN InheritedMember
    ELSE Undefined

\* _mapModelName(model): map[model] || 'small'
MapModelName(m) == IF Lookup(m) # Undefined THEN Lookup(m) ELSE "small"

\* numOutputSamples of resampleAndConvertToFloat32 for a buffer of `bytes`
\* bytes: Math.floor((bytes / 2) * (16000 / 24000)), the division by 2 not
\* being rounded; on the lengths modelled the double product has the floor
\* of the exact quotient
NumOutputSamples(bytes) ==
    (bytes * TARGET_SAMPLE_RATE) \div (2 * INPUT_SAMPLE_RATE)

RECURSIVE TrimStart(_)
TrimStart(t) ==
    IF t # <<>> /\ Head(t) = " " THEN TrimStart(Tail(t)) ELSE t

RECURSIVE TrimEnd(_)
TrimEnd(t) ==
    IF t # <<>> /\ t[Len(t)] = " " THEN TrimEnd(SubSeq(t, 1, Len(t) - 1)) ELSE t

\* String.prototype.trim
Trim(t) == TrimEnd(TrimStart(t))

\* the filter letting every segment through
Completed_NoFilter(segs) == segs

\* msg.segments.filter(s => s.completed)
Completed(segs) == SelectSeq(segs, LAMBDA s : s.completed)

\* slice that ignores its start index
Slice_FromStart(seq, n) == seq

\* completedSegments.slice(n)
Slice(seq, n) == IF n >= Len(seq) THEN <<>> ELSE SubSeq(seq, n + 1, Len(seq))

\* the loop without trim()
RECURSIVE EmitLoop_NoTrim(_, _, _, _)
EmitLoop_NoTrim(segs, pos, last, out) ==
    IF segs = <<>> THEN [last |-> last, emits |-> out]
    ELSE LET text == Head(segs).text IN
         IF text # <<>> /\ text # last
         THEN EmitLoop_NoTrim(Tail(segs), pos + 1, text,
                              Append(out, [text |-> text, pos |-> pos]))
         ELSE EmitLoop_NoTrim(Tail(segs), pos + 1, last, out)

\* the loop without the comparison against lastEmittedText
RECURSIVE EmitLoop_NoDupCheck(_, _, _, _)
EmitLoop_NoDupCheck(segs, pos, last, out) ==
    IF segs = <<>> THEN [last |-> last, emits |-> out]
    ELSE LET text == Trim(Head(segs).text) IN
         IF text # <<>>
         THEN EmitLoop_NoDupCheck(Tail(segs), pos + 1, text,
                                  Append(out, [text |-> text, pos |-> pos]))
         ELSE EmitLoop_NoDupCheck(Tail(segs), pos + 1, last, out)

\* the for loop of _handleServerMessage over newCompleted; pos is the index
\* of Head(segs) in the completed list
RECURSIVE EmitLoop(_, _, _, _)
EmitLoop(segs, pos, last, out) ==
    IF segs = <<>> THEN [last |-> last, emits |-> out]
    ELSE LET text == Trim(Head(segs).text) IN
         IF text # <<>> /\ text # last
         THEN EmitLoop(Tail(segs), pos + 1, text,
                       Append(out, [text |-> text, pos |-> pos]))
         ELSE EmitLoop(Tail(segs), pos + 1, last, out)

\* the segments branch storing the number of new segments as the count
Reconcile_CountNew(count, last, segs) ==
    IF Len(segs) > 0
    THEN LET completedSegments == Completed(segs)
             newCompleted == Slice(completedSegments, count)
             r == EmitLoop(newCompleted, count, last, <<>>)
         IN  [count |-> Len(newCompleted), last |-> r.last, emits |-> r.emits]
    ELSE [count |-> count, last |-> last, emits |-> <<>>]

\* the segments branch of _handleServerMessage
Reconcile(count, last, segs) ==
    IF Len(segs) > 0
    THEN LET completedSegments == Completed(segs)
             newCompleted == Slice(completedSegments, count)
             r == EmitLoop(newCompleted, count, last, <<>>)
         IN  [count |-> Len(completedSegments), last |-> r.last, emits |-> r.emits]
    ELSE [count |-> count, last |-> last, emits |-> <<>>]

\* ws.readyState === WebSocket.OPEN
ReadyStateOpen == sock = "OPEN"

\* outcome of the catch block of initialize(): emit('error') throws when the
\* session has no 'error' listener, so initialize() rejects instead of
\* returning false
InitFailure == IF "error" \in listeners THEN "failed" ELSE "rejected"

\* reject(...) of the promise inside initialize(): settles it only once
Reject == IF pcInit = "pending" THEN InitFailure ELSE pcInit

\* ------------------------------------------------------------------ Init
\* the session after its constructor ran
InitSession ==
    /\ pcInit = "idle"
    /\ wsSet = FALSE
    /\ sock = "NONE"
    /\ isRunning = FALSE
    /\ serverReady = FALSE
    /\ timeout = FALSE
    /\ emittedCompletedCount = 0
    /\ lastEmittedText = <<>>
    /\ listeners = {}
    /\ wire = <<>>
    /\ emitted = <<>>
    /\ uncaught = FALSE
    /\ readyG = FALSE
    /\ closedG = FALSE
    /\ earlyClose = FALSE
    /\ shrunk = FALSE
    /\ lastSegs = NoSegs
    /\ repeated = FALSE
    /\ growth = 0
    /\ closeCode = 0
    /\ lastEmits = <<>>
    /\ closeRaised = FALSE
    /\ closeCalled = FALSE
    /\ closedAfterAttach = FALSE
    /\ lastEvent = "new"

\* nothing resampled, no handshake built, both repositories empty, no call made
InitOther ==
    /\ configModel = NoValue
    /\ pcmBytes = 0
    /\ outSamples = 0
    /\ presets = [id \in PresetIds |-> Absent]
    /\ created = 0
    /\ pending = [u \in Users |-> NoCall]
    /\ outcome = "none"
    /\ actor = [uid |-> "-", op |-> "-", id |-> 0]

\* createSTT: config.model || 'whisper-tiny'
Init ==
    /\ InitSession
    /\ model = "whisper-tiny"
    /\ backend = "sqlite"
    /\ InitOther

\* a session constructed with any of the model identifiers
InitConfig ==
    /\ InitSession
    /\ model \in Models
    /\ backend = "sqlite"
    /\ InitOther

\* either preset repository, empty
InitPreset ==
    /\ InitSession
    /\ model = "whisper-tiny"
    /\ backend \in Repos
    /\ InitOther

modelVars == << model, configModel >>

pureVars == << pcmBytes, outSamples >>

presetVars == << backend, presets, created, pending, outcome, actor >>

reconVars == << emittedCompletedCount, lastEmittedText, emitted, shrunk,
               lastSegs, repeated, growth >>

\* what only close() and the transport's closure write
closeVars == << closeCode, closeRaised, closedAfterAttach, closeCalled >>

\* this.emit(ev, arg)
Emit(ev, arg) == [ev |-> ev, arg |-> arg]

\* the emit('error') of the catch block of initialize(), when reject runs
CatchEmits == IF pcInit = "pending" THEN << Emit("error", "init") >> ELSE <<>>

\* new Promise(...) executor: arm the timer, create the socket
Connect ==
    /\ pcInit' = "pending"
    /\ timeout' = TRUE
    /\ wsSet' = TRUE
    /\ sock' = "CONNECTING"

\* initialize() up to its first suspension point
Initialize(running) ==
    /\ pcInit = "idle"
    /\ IF running
       THEN Connect
       ELSE /\ pcInit' = "starting"
            /\ UNCHANGED << timeout, wsSet, sock >>
    /\ lastEmits' = <<>>
    /\ UNCHANGED closeVars
    /\ UNCHANGED << modelVars, pureVars, presetVars >>
    /\ lastEvent' = "initialize"
    /\ UNCHANGED << isRunning, serverReady, listeners, wire, uncaught,
                    readyG, closedG, earlyClose >>
    /\ UNCHANGED reconVars

\* await startLiveServer() returns
StartLiveServerDone ==
    /\ pcInit = "starting"
    /\ Connect
    /\ lastEmits' = <<>>
    /\ UNCHANGED closeVars
    /\ UNCHANGED << modelVars, pureVars, presetVars >>
    /\ lastEvent' = "started"
    /\ UNCHANGED << isRunning, serverReady, listeners, wire, uncaught,
                    readyG, closedG, earlyClose >>
    /\ UNCHANGED reconVars

\* await startLiveServer() throws: the catch block runs
StartLiveServerFail ==
    /\ pcInit = "starting"
    /\ pcInit' = InitFailure
    /\ lastEmits' = << Emit("error", "init") >>
    /\ UNCHANGED closeVars
    /\ UNCHANGED << modelVars, pureVars, presetVars >>
    /\ lastEvent' = "startFailed"
    /\ UNCHANGED << wsSet, sock, isRunning, serverReady, timeout, listeners,
                    wire, uncaught, readyG, closedG, earlyClose >>
    /\ UNCHANGED reconVars

\* the setTimeout callback
Timeout ==
    /\ timeout
    /\ timeout' = FALSE
    /\ pcInit' = Reject
    /\ lastEmits' = CatchEmits
    /\ UNCHANGED closeVars
    /\ UNCHANGED << modelVars, pureVars, presetVars >>
    /\ lastEvent' = "timeout"
    /\ UNCHANGED << wsSet, sock, isRunning, serverReady, listeners, wire,
                    uncaught, readyG, closedG, earlyClose >>
    /\ UNCHANGED reconVars

\* the open handler without the handshake
WsOpen_NoConfig ==
    /\ sock = "CONNECTING"
    /\ sock' = "OPEN"
    /\ timeout' = FALSE
    /\ lastEmits' = <<>>
    /\ UNCHANGED closeVars
    /\ UNCHANGED << modelVars, pureVars, presetVars >>
    /\ lastEvent' = "open"
    /\ UNCHANGED << pcInit, wsSet, isRunning, serverReady, listeners, wire,
                    uncaught, readyG, closedG, earlyClose >>
    /\ UNCHANGED reconVars

\* ws.on('open')
WsOpen ==
    /\ sock = "CONNECTING"
    /\ sock' = "OPEN"
    /\ timeout' = FALSE
    /\ configModel' = MapModelName(model)
    /\ wire' = Append(wire, "config")
    /\ lastEmits' = <<>>
    /\ UNCHANGED closeVars
    /\ UNCHANGED << model, pureVars, presetVars >>
    /\ lastEvent' = "open"
    /\ UNCHANGED << pcInit, wsSet, isRunning, serverReady, listeners,
                    uncaught, readyG, closedG, earlyClose >>
    /\ UNCHANGED reconVars

\* ws.on('error')
WsError ==
    /\ sock \in {"CONNECTING", "OPEN", "CLOSING", "ABORTED"}
    /\ sock' = "FAILED"
    /\ timeout' = FALSE
    /\ IF "error" \in listeners
       THEN /\ pcInit' = IF ~serverReady THEN Reject ELSE pcInit
            /\ lastEmits' = << Emit("error", "ws") >>
                            \o (IF ~serverReady THEN CatchEmits ELSE <<>>)
            /\ UNCHANGED uncaught
       ELSE \* emit('error') throws out of the handler; reject is not reached
            /\ uncaught' = TRUE
            /\ lastEmits' = << Emit("error", "ws") >>
            /\ UNCHANGED pcInit
    /\ UNCHANGED closeVars
    /\ UNCHANGED << modelVars, pureVars, presetVars >>
    /\ lastEvent' = "error"
    /\ UNCHANGED << wsSet, isRunning, serverReady, listeners, wire,
                    readyG, closedG, earlyClose >>
    /\ UNCHANGED reconVars

\* closure codes the transport reports: normal and abnormal closure
Codes == {1000, 1006}

\* the close handler without the two flag assignments
WsClose_KeepReady(code) ==
    /\ sock \in {"OPEN", "CLOSING", "FAILED"}
    /\ sock' = "CLOSED"
    /\ closeCode' = code
    /\ lastEmits' = << Emit("close", code) >>
                    \o (IF ~serverReady THEN CatchEmits ELSE <<>>)
    /\ UNCHANGED << closeRaised, closedAfterAttach, closeCalled >>
    /\ timeout' = FALSE
    /\ UNCHANGED << isRunning, serverReady >>
    /\ pcInit' = IF ~serverReady THEN Reject ELSE pcInit
    /\ readyG' = FALSE
    /\ closedG' = TRUE
    /\ UNCHANGED << modelVars, pureVars, presetVars >>
    /\ lastEvent' = "closed"
    /\ UNCHANGED << wsSet, listeners, wire, uncaught, earlyClose >>
    /\ UNCHANGED reconVars

\* ws.on('close') with closure code `code`
WsClose(code) ==
    /\ sock \in {"OPEN", "CLOSING", "FAILED"}
    /\ sock' = "CLOSED"
    /\ closeCode' = code
    /\ lastEmits' = << Emit("close", code) >> \o CatchEmits
    /\ UNCHANGED << closeRaised, closedAfterAttach, closeCalled >>
    /\ timeout' = FALSE
    /\ isRunning' = FALSE
    /\ serverReady' = FALSE
    /\ pcInit' = Reject
    /\ readyG' = FALSE
    /\ closedG' = TRUE
    /\ UNCHANGED << modelVars, pureVars, presetVars >>
    /\ lastEvent' = "closed"
    /\ UNCHANGED << wsSet, listeners, wire, uncaught, earlyClose >>
    /\ UNCHANGED reconVars

\* ws.close() as seen by the socket
SockAfterClose ==
    CASE sock = "CONNECTING" -> "ABORTED"
      [] sock = "OPEN"       -> "CLOSING"
      [] OTHER               -> sock

\* what the transport does inside close(): nothing wrong, ws.send throws,
\* or ws.close throws
Fails == {"none", "send", "close"}

\* the failure can happen: ws.send is called on an open socket only, ws.close
\* whenever this.ws is set
CanFail(fail) ==
    \/ fail = "none"
    \/ fail = "send" /\ wsSet /\ ReadyStateOpen
    \/ fail = "close" /\ wsSet

\* close() without the END_OF_AUDIO send
CloseBody_NoEndMarker(fail) ==
    /\ CanFail(fail)
    /\ isRunning' = FALSE
    /\ IF wsSet
       THEN /\ wire' = wire
                       \o (IF fail = "none" THEN << "close" >> ELSE <<>>)
            /\ sock' = IF fail = "none" THEN SockAfterClose ELSE sock
       ELSE UNCHANGED << wire, sock >>
    /\ wsSet' = FALSE
    /\ listeners' = {}
    /\ readyG' = FALSE
    /\ closedG' = TRUE
    /\ earlyClose' = (earlyClose \/ pcInit = "starting")
    /\ closedAfterAttach' = (closedAfterAttach \/ pcInit = "created")
    /\ lastEmits' = <<>>
    /\ closeCalled' = TRUE
    /\ UNCHANGED << closeCode, closeRaised >>

\* close() without the try/catch: what the transport throws leaves close()
\* before `this.ws = null` and removeAllListeners()
CloseBody_NoCatch(fail) ==
    /\ CanFail(fail)
    /\ isRunning' = FALSE
    /\ IF wsSet
       THEN /\ wire' = wire
                       \o (IF ReadyStateOpen /\ fail # "send"
                           THEN << "END_OF_AUDIO" >> ELSE <<>>)
                       \o (IF fail = "none" THEN << "close" >> ELSE <<>>)
            /\ sock' = IF fail = "none" THEN SockAfterClose ELSE sock
       ELSE UNCHANGED << wire, sock >>
    /\ wsSet' = IF fail = "none" THEN FALSE ELSE wsSet
    /\ listeners' = IF fail = "none" THEN {} ELSE listeners
    /\ readyG' = FALSE
    /\ closedG' = TRUE
    /\ earlyClose' = (earlyClose \/ pcInit = "starting")
    /\ closedAfterAttach' = (closedAfterAttach \/ pcInit = "created")
    /\ lastEmits' = <<>>
    /\ closeRaised' = (closeRaised \/ fail # "none")
    /\ closeCalled' = TRUE
    /\ UNCHANGED closeCode

\* close() without removeAllListeners()
CloseBody_KeepListeners(fail) ==
    /\ CanFail(fail)
    /\ isRunning' = FALSE
    /\ IF wsSet
       THEN /\ wire' = wire
                       \o (IF ReadyStateOpen /\ fail # "send"
                           THEN << "END_OF_AUDIO" >> ELSE <<>>)
                       \o (IF fail = "none" THEN << "close" >> ELSE <<>>)
            /\ sock' = IF fail = "none" THEN SockAfterClose ELSE sock
       ELSE UNCHANGED << wire, sock >>
    /\ wsSet' = FALSE
    /\ UNCHANGED listeners
    /\ readyG' = FALSE
    /\ closedG' = TRUE
    /\ earlyClose' = (earlyClose \/ pcInit = "starting")
    /\ closedAfterAttach' = (closedAfterAttach \/ pcInit = "created")
    /\ lastEmits' = <<>>
    /\ closeCalled' = TRUE
    /\ UNCHANGED << closeCode, closeRaised >>

\* the body of close(); the try block ends where the transport throws
CloseBody(fail) ==
    /\ CanFail(fail)
    /\ isRunning' = FALSE
    /\ IF wsSet
       THEN /\ wire' = wire
                       \o (IF ReadyStateOpen /\ fail # "send"
                           THEN << "END_OF_AUDIO" >> ELSE <<>>)
                       \o (IF fail = "none" THEN << "close" >> ELSE <<>>)
            /\ sock' = IF fail = "none" THEN SockAfterClose ELSE sock
       ELSE UNCHANGED << wire, sock >>
    /\ wsSet' = FALSE
    /\ listeners' = {}
    /\ readyG' = FALSE
    /\ closedG' = TRUE
    /\ earlyClose' = (earlyClose \/ pcInit = "starting")
    /\ closedAfterAttach' = (closedAfterAttach \/ pcInit = "created")
    /\ lastEmits' = <<>>
    /\ closeCalled' = TRUE
    /\ UNCHANGED << closeCode, closeRaised >>

\* close() called by the owner of the session
Close(fail) ==
    /\ CloseBody(fail)
    /\ UNCHANGED << modelVars, pureVars, presetVars >>
    /\ lastEvent' = IF fail = "none" THEN "close" ELSE "closeThrew"
    /\ UNCHANGED << pcInit, serverReady, timeout, uncaught >>
    /\ UNCHANGED reconVars

\* the SERVER_READY branch without `this.isRunning = true`
MsgServerReady_NoRunning ==
    /\ sock \in {"OPEN", "CLOSING"}
    /\ serverReady' = TRUE
    /\ timeout' = FALSE
    /\ pcInit' = IF pcInit = "pending" THEN "resolved" ELSE pcInit
    /\ readyG' = TRUE
    /\ lastEmits' = <<>>
    /\ UNCHANGED closeVars
    /\ UNCHANGED << modelVars, pureVars, presetVars >>
    /\ lastEvent' = "ready"
    /\ UNCHANGED << isRunning, wsSet, sock, listeners, wire, uncaught,
                    closedG, earlyClose >>
    /\ UNCHANGED reconVars

\* ws.on('message') with {message: 'SERVER_READY'}
MsgServerReady ==
    /\ sock \in {"OPEN", "CLOSING"}
    /\ isRunning' = TRUE
    /\ serverReady' = TRUE
    /\ timeout' = FALSE
    /\ pcInit' = IF pcInit = "pending" THEN "resolved" ELSE pcInit
    /\ readyG' = TRUE
    /\ lastEmits' = <<>>
    /\ UNCHANGED closeVars
    /\ UNCHANGED << modelVars, pureVars, presetVars >>
    /\ lastEvent' = "ready"
    /\ UNCHANGED << wsSet, sock, listeners, wire, uncaught, closedG, earlyClose >>
    /\ UNCHANGED reconVars

\* ws.on('message') with {status: 'WAIT'}
MsgWait ==
    /\ sock \in {"OPEN", "CLOSING"}
    /\ lastEmits' = <<>>
    /\ UNCHANGED closeVars
    /\ UNCHANGED << modelVars, pureVars, presetVars >>
    /\ lastEvent' = "wait"
    /\ UNCHANGED << pcInit, wsSet, sock, isRunning, serverReady, timeout,
                    listeners, wire, uncaught, readyG, closedG, earlyClose >>
    /\ UNCHANGED reconVars

\* the catch block of the message handler surfacing the parse error as an
\* error event
MsgMalformed_EmitsError ==
    /\ sock \in {"OPEN", "CLOSING"}
    /\ lastEmits' = << Emit("error", "parse") >>
    /\ UNCHANGED closeVars
    /\ UNCHANGED << modelVars, pureVars, presetVars >>
    /\ lastEvent' = "malformed"
    /\ UNCHANGED << pcInit, wsSet, sock, isRunning, serverReady, timeout,
                    listeners, wire, uncaught, readyG, closedG, earlyClose >>
    /\ UNCHANGED reconVars

\* ws.on('message') with data JSON.parse rejects
MsgMalformed ==
    /\ sock \in {"OPEN", "CLOSING"}
    /\ lastEmits' = <<>>
    /\ UNCHANGED closeVars
    /\ UNCHANGED << modelVars, pureVars, presetVars >>
    /\ lastEvent' = "malformed"
    /\ UNCHANGED << pcInit, wsSet, sock, isRunning, serverReady, timeout,
                    listeners, wire, uncaught, readyG, closedG, earlyClose >>
    /\ UNCHANGED reconVars

\* the DISCONNECT branch without the call of close()
MsgDisconnect_NoClose(fail) ==
    /\ sock \in {"OPEN", "CLOSING"}
    /\ fail = "none"
    /\ lastEmits' = <<>>
    /\ UNCHANGED closeVars
    /\ UNCHANGED << modelVars, pureVars, presetVars >>
    /\ lastEvent' = "disconnect"
    /\ UNCHANGED << pcInit, wsSet, sock, isRunning, serverReady, timeout,
                    listeners, wire, uncaught, readyG, closedG, earlyClose >>
    /\ UNCHANGED reconVars

\* ws.on('message') with {message: 'DISCONNECT'}
MsgDisconnect(fail) ==
    /\ sock \in {"OPEN", "CLOSING"}
    /\ CloseBody(fail)
    /\ UNCHANGED << modelVars, pureVars, presetVars >>
    /\ lastEvent' = IF fail = "none" THEN "disconnect" ELSE "disconnectThrew"
    /\ UNCHANGED << pcInit, serverReady, timeout, uncaught >>
    /\ UNCHANGED reconVars

\* q is p followed by at least one more element
StrictlyExtends(p, q) == Len(q) > Len(p) /\ SubSeq(q, 1, Len(p)) = p

\* ws.on('message') with {segments: segs}
MsgSegments(segs) ==
    /\ sock \in {"OPEN", "CLOSING"}
    /\ LET r == Reconcile(emittedCompletedCount, lastEmittedText, segs) IN
         /\ Len(emitted) + Len(r.emits) <= MaxEmit
         /\ emittedCompletedCount' = r.count
         /\ lastEmittedText' = r.last
         /\ emitted' = emitted \o r.emits
         /\ lastEmits' = [i \in 1..Len(r.emits) |->
                             Emit("transcription", r.emits[i].text)]
    /\ shrunk' = (shrunk \/ (Len(segs) > 0
                             /\ Len(Completed(segs)) < emittedCompletedCount))
    /\ lastSegs' = segs
    /\ repeated' = (segs = lastSegs)
    /\ growth' = IF growth >= 0
                    /\ StrictlyExtends(Completed(lastSegs), Completed(segs))
                 THEN growth + 1 ELSE -1
    /\ UNCHANGED closeVars
    /\ UNCHANGED << modelVars, pureVars, presetVars >>
    /\ lastEvent' = "segments"
    /\ UNCHANGED << pcInit, wsSet, sock, isRunning, serverReady, timeout,
                    listeners, wire, uncaught, readyG, closedG, earlyClose >>

\* number of audio frames on the wire
RECURSIVE AudioFrames(_)
AudioFrames(w) ==
    IF w = <<>> THEN 0
    ELSE (IF Head(w) = "audio" THEN 1 ELSE 0) + AudioFrames(Tail(w))

\* sendRealtimeInput without the isRunning test of its guard
SendRealtimeInput_NoRunningCheck(bytes) ==
    /\ IF ~wsSet \/ ~ReadyStateOpen
       THEN UNCHANGED wire
       ELSE IF bytes = 0
            THEN UNCHANGED wire
            ELSE /\ AudioFrames(wire) < MaxWire
                 /\ wire' = Append(wire, "audio")
    /\ lastEmits' = <<>>
    /\ UNCHANGED closeVars
    /\ UNCHANGED << modelVars, pureVars, presetVars >>
    /\ lastEvent' = "send"
    /\ UNCHANGED << pcInit, wsSet, sock, isRunning, serverReady, timeout,
                    listeners, uncaught, readyG, closedG, earlyClose >>
    /\ UNCHANGED reconVars

\* sendRealtimeInput(audioData) with a buffer of `bytes` bytes
SendRealtimeInput(bytes) ==
    /\ IF ~isRunning \/ ~wsSet \/ ~ReadyStateOpen
       THEN UNCHANGED wire
       ELSE IF bytes = 0
            THEN UNCHANGED wire
            ELSE /\ AudioFrames(wire) < MaxWire
                 /\ wire' = Append(wire, "audio")
    /\ lastEmits' = <<>>
    /\ UNCHANGED closeVars
    /\ UNCHANGED << modelVars, pureVars, presetVars >>
    /\ lastEvent' = "send"
    /\ UNCHANGED << pcInit, wsSet, sock, isRunning, serverReady, timeout,
                    listeners, uncaught, readyG, closedG, earlyClose >>
    /\ UNCHANGED reconVars

Events == {"transcription", "error", "close"}

\* createSTT after `await session.initialize()` returned true
AttachCallbacks(cbs) ==
    /\ pcInit = "resolved"
    /\ pcInit' = "created"
    /\ listeners' = listeners \cup cbs
    /\ lastEmits' = <<>>
    /\ UNCHANGED closeVars
    /\ UNCHANGED << modelVars, pureVars, presetVars >>
    /\ lastEvent' = "attach"
    /\ UNCHANGED << wsSet, sock, isRunning, serverReady, timeout, wire,
                    uncaught, readyG, closedG, earlyClose >>
    /\ UNCHANGED reconVars

Next ==
    \/ \E running \in BOOLEAN : Initialize(running)
    \/ StartLiveServerDone
    \/ StartLiveServerFail
    \/ Timeout
    \/ WsOpen
    \/ WsError
    \/ \E code \in Codes : WsClose(code)
    \/ \E fail \in Fails : Close(fail)
    \/ MsgServerReady
    \/ MsgWait
    \/ MsgMalformed
    \/ \E fail \in Fails : MsgDisconnect(fail)
    \/ \E segs \in LifeSegLists : MsgSegments(segs)
    \/ \E bytes \in 0..MaxBytes : SendRealtimeInput(bytes)
    \/ \E cbs \in SUBSET Events : AttachCallbacks(cbs)

Spec == Init /\ [][Next]_vars

\* The reconciler on a session that connects and then receives arbitrary
\* segment lists: no other operation reads or writes the reconciliation state.
NextRecon ==
    \/ \E running \in BOOLEAN : Initialize(running)
    \/ StartLiveServerDone
    \/ WsOpen
    \/ \E segs \in SegLists : MsgSegments(segs)

SpecRecon == Init /\ [][NextRecon]_vars

TypeOK ==
    /\ pcInit \in {"idle", "starting", "pending", "resolved", "created",
                   "failed", "rejected"}
    /\ sock \in {"NONE", "CONNECTING", "OPEN", "CLOSING", "ABORTED",
                 "FAILED", "CLOSED"}
    /\ emittedCompletedCount \in 0..MaxSegs
    /\ growth \in -1..MaxSegs
    /\ closeCode \in Codes \cup {0}
    /\ Len(emitted) <= MaxEmit

\* The timer callback runs once its delay has elapsed; nothing obliges the
\* transport or the caller to act.
FairSpec == Spec /\ WF_vars(Timeout)

\* ------------------------------------------- model mapping and resampler
\* every variable of the session and of its history
sessionVars ==
    << pcInit, wsSet, sock, isRunning, serverReady, timeout,
       emittedCompletedCount, lastEmittedText, listeners, wire, emitted,
       uncaught, readyG, closedG, earlyClose, shrunk, lastSegs, repeated,
       growth, closeCode, lastEmits, closeRaised, closedAfterAttach,
       closeCalled, lastEvent >>

\* sessions constructed with every model identifier, connecting and
\* receiving segments
SpecConfig == InitConfig /\ [][NextRecon]_vars

\* resampleAndConvertToFloat32(pcmInt16Buffer) on a buffer of `bytes` bytes
Resample(bytes) ==
    /\ pcmBytes' = bytes
    /\ outSamples' = NumOutputSamples(bytes)
    /\ UNCHANGED << sessionVars, modelVars, presetVars >>

NextResample == \E bytes \in PcmLengths : Resample(bytes)

SpecResample == Init /\ [][NextResample]_vars

\* ----------------------------------------------------- preset repositories
\* a user starts a call only when their previous one has returned
Idle(u) == pending[u] = NoCall

\* the row / document exists and belongs to uid
Owns(uid, id) == presets[id] # Absent /\ presets[id].uid = uid

\* create({uid, title, prompt}) of either repository: a fresh id
Create(uid) ==
    /\ Idle(uid)
    /\ created < MaxPresets
    /\ created' = created + 1
    /\ presets' = [presets EXCEPT ![created + 1] =
                       [uid |-> uid, title |-> CreatedTitle]]
    /\ outcome' = "ok"
    /\ actor' = [uid |-> uid, op |-> "create", id |-> created + 1]
    /\ UNCHANGED << backend, pending >>
    /\ UNCHANGED << sessionVars, modelVars, pureVars >>

\* SQLite update(id, {title, prompt}, uid): one UPDATE ... WHERE id AND uid
SqliteUpdate(uid, id) ==
    /\ backend = "sqlite"
    /\ Idle(uid)
    /\ IF Owns(uid, id)
       THEN /\ presets' = [presets EXCEPT ![id].title = UpdatedTitle]
            /\ outcome' = "ok"
       ELSE /\ UNCHANGED presets
            /\ outcome' = "denied"
    /\ actor' = [uid |-> uid, op |-> "update", id |-> id]
    /\ UNCHANGED << backend, created, pending >>
    /\ UNCHANGED << sessionVars, modelVars, pureVars >>

\* SQLite delete(id, uid): one DELETE ... WHERE id AND uid
SqliteDelete(uid, id) ==
    /\ backend = "sqlite"
    /\ Idle(uid)
    /\ IF Owns(uid, id)
       THEN /\ presets' = [presets EXCEPT ![id] = Absent]
            /\ outcome' = "ok"
       ELSE /\ UNCHANGED presets
            /\ outcome' = "denied"
    /\ actor' = [uid |-> uid, op |-> "delete", id |-> id]
    /\ UNCHANGED << backend, created, pending >>
    /\ UNCHANGED << sessionVars, modelVars, pureVars >>

\* the first half of a Firestore call with the uid test of its guard left out
FirestoreRead_NoOwnerCheck(uid, id, op) ==
    /\ backend = "firestore"
    /\ Idle(uid)
    /\ IF presets[id] # Absent
       THEN /\ pending' = [pending EXCEPT ![uid] = [op |-> op, id |-> id]]
            /\ outcome' = "none"
       ELSE /\ UNCHANGED pending
            /\ outcome' = "denied"
    /\ actor' = [uid |-> uid, op |-> op, id |-> id]
    /\ UNCHANGED << backend, presets, created >>
    /\ UNCHANGED << sessionVars, modelVars, pureVars >>

\* Firestore update / del up to the await of the write: getDoc, then the
\* guard on exists() and data().uid
FirestoreRead(uid, id, op) ==
    /\ backend = "firestore"
    /\ Idle(uid)
    /\ IF Owns(uid, id)
       THEN /\ pending' = [pending EXCEPT ![uid] = [op |-> op, id |-> id]]
            /\ outcome' = "none"
       ELSE /\ UNCHANGED pending
            /\ outcome' = "denied"
    /\ actor' = [uid |-> uid, op |-> op, id |-> id]
    /\ UNCHANGED << backend, presets, created >>
    /\ UNCHANGED << sessionVars, modelVars, pureVars >>

\* the updateDoc of Firestore update: it rejects when the document is gone
FirestoreUpdateWrite(uid) ==
    /\ pending[uid].op = "update"
    /\ IF presets[pending[uid].id] # Absent
       THEN /\ presets' = [presets EXCEPT ![pending[uid].id].title = UpdatedTitle]
            /\ outcome' = "ok"
       ELSE /\ UNCHANGED presets
            /\ outcome' = "notFoundAtWrite"
    /\ pending' = [pending EXCEPT ![uid] = NoCall]
    /\ actor' = [uid |-> uid, op |-> "updateWrite", id |-> pending[uid].id]
    /\ UNCHANGED << backend, created >>
    /\ UNCHANGED << sessionVars, modelVars, pureVars >>

\* the deleteDoc of Firestore del: it succeeds on a missing document too
FirestoreDeleteWrite(uid) ==
    /\ pending[uid].op = "delete"
    /\ presets' = [presets EXCEPT ![pending[uid].id] = Absent]
    /\ outcome' = "ok"
    /\ pending' = [pending EXCEPT ![uid] = NoCall]
    /\ actor' = [uid |-> uid, op |-> "deleteWrite", id |-> pending[uid].id]
    /\ UNCHANGED << backend, created >>
    /\ UNCHANGED << sessionVars, modelVars, pureVars >>

NextPreset ==
    \/ \E uid \in Users : Create(uid)
    \/ \E uid \in Users : \E id \in PresetIds : SqliteUpdate(uid, id)
    \/ \E uid \in Users : \E id \in PresetIds : SqliteDelete(uid, id)
    \/ \E uid \in Users : \E id \in PresetIds :
          \E op \in {"update", "delete"} : FirestoreRead(uid, id, op)
    \/ \E uid \in Users : FirestoreUpdateWrite(uid)
    \/ \E uid \in Users : FirestoreDeleteWrite(uid)

\* the repository in use, called by the users in any interleaving
SpecPreset == InitPreset /\ [][NextPreset]_vars

\* ---------------------------------------------------------------- claims
InitFailed == pcInit \in {"failed", "rejected"}

\* C1: an audio frame is written to the transport only by sendRealtimeInput
\* and only while the session is ready (SERVER_READY received, no close() and
\* no transport closure since); a sendRealtimeInput call made in any other
\* state changes nothing: no write, nothing buffered.
C1_AudioOnlyWhileReady ==
    [][ /\ (AudioFrames(wire') > AudioFrames(wire))
            => (readyG /\ lastEvent' = "send")
        /\ (lastEvent' = "send" /\ ~readyG)
            => UNCHANGED << pcInit, wsSet, sock, isRunning, serverReady,
                            timeout, listeners, wire, uncaught, reconVars >>
      ]_vars

\* an audio frame has just been written on a ready session
C1_Witness ==
    /\ lastEvent = "send"
    /\ readyG
    /\ AudioFrames(wire) > 0
    /\ wire[Len(wire)] = "audio"

\* C2: initialize() does not stay pending forever: once the transport has
\* opened (handshake sent), a pending initialize() eventually completes even
\* if no SERVER_READY, error or close event ever arrives on the open transport.
C2_InitEventuallyCompletes ==
    (pcInit = "pending" /\ sock = "OPEN")
        ~> (pcInit # "pending" \/ sock # "OPEN")

\* C3: once initialize() has completed with failure the ready flags are
\* never true again and no audio frame is written.
C3_FailedStaysUnusable ==
    [][ InitFailed => /\ ~isRunning'
                      /\ ~serverReady'
                      /\ AudioFrames(wire') = AudioFrames(wire) ]_vars

\* C4: once the session has been closed (close() or transport closure) no
\* later event sets isRunning or serverReady to true.
C4_ClosedIsAbsorbing ==
    [][ closedG => /\ (isRunning' => isRunning)
                   /\ (serverReady' => serverReady) ]_vars

\* C5: after a close() made while initialize() awaits the backend start, the
\* session opens no connection, sends no handshake and never becomes ready.
C5_EarlyCloseCancels ==
    earlyClose => /\ sock = "NONE"
                  /\ wire = <<>>
                  /\ ~isRunning
                  /\ ~serverReady

\* C6: no failure surfaces as an uncaught exception.
C6_NoUncaughtException == ~uncaught

\* C7: no two consecutive emitted transcription events carry the same text.
C7_NoAdjacentDuplicates ==
    \A i \in 1..(Len(emitted) - 1) : emitted[i].text # emitted[i + 1].text

\* two events were emitted and, in the last message, the completed segment at
\* position 1 was skipped because its trimmed text equals lastEmittedText
C7_Witness ==
    /\ lastEvent = "segments"
    /\ Len(emitted) >= 2
    /\ Len(Completed(lastSegs)) = 2
    /\ emittedCompletedCount = 2
    /\ emitted[Len(emitted)].pos = 0
    /\ Completed(lastSegs)[2].text # lastEmittedText
    /\ Trim(Completed(lastSegs)[2].text) = lastEmittedText

\* C8: emittedCompletedCount never decreases.
C8_CountMonotonic ==
    [][ emittedCompletedCount' >= emittedCompletedCount ]_vars

\* C9: as long as the backend replays its history (no message carries fewer
\* completed segments than the one before), every position of the completed
\* history is emitted at most once.
C9_AtMostOncePerPosition ==
    ~shrunk =>
        \A i, j \in 1..Len(emitted) :
            (i # j) => emitted[i].pos # emitted[j].pos

\* the history 'a', 'b' was replayed and positions 0 and 1 were emitted once
C9_Witness ==
    /\ ~shrunk
    /\ repeated
    /\ Len(Completed(lastSegs)) = 2
    /\ Len(emitted) = 2
    /\ emitted[1].pos = 0
    /\ emitted[2].pos = 1

\* C10: a segment message carrying the same list as the one before emits
\* nothing and leaves emittedCompletedCount and lastEmittedText unchanged.
C10_SecondFeedIsNoOp ==
    [][ (lastEvent' = "segments" /\ lastSegs' = lastSegs)
            => /\ emitted' = emitted
               /\ emittedCompletedCount' = emittedCompletedCount
               /\ lastEmittedText' = lastEmittedText ]_vars

\* a list with a completed, emitted segment has been fed twice in a row
C10_Witness ==
    /\ repeated
    /\ lastEvent = "segments"
    /\ emittedCompletedCount >= 1
    /\ Len(emitted) >= 1
    /\ lastEmittedText = Trim(Completed(lastSegs)[emittedCompletedCount].text)

\* text of the emission before the next one, '' when there is none
PrecedingText(log) == IF log = <<>> THEN <<>> ELSE log[Len(log)].text

\* the segments of `appended` (positions pos, pos + 1, ... of the completed
\* list) that are to be emitted after the log `log`: those whose trimmed text
\* is neither empty nor the text of the emission just before
RECURSIVE ExpectedEvents(_, _, _)
ExpectedEvents(appended, pos, log) ==
    IF appended = <<>> THEN log
    ELSE LET t == Trim(Head(appended).text) IN
         ExpectedEvents(Tail(appended), pos + 1,
                        IF t # <<>> /\ t # PrecedingText(log)
                        THEN Append(log, [text |-> t, pos |-> pos])
                        ELSE log)

\* C11: while every message's completed list strictly extends the one of the
\* message before, a message emits exactly its newly appended completed
\* segments, in order, except those whose trimmed text is empty or equals the
\* emission just before.
C11_GrowthEmitsAppended ==
    [][ (lastEvent' = "segments" /\ growth' > 0)
            => emitted' = ExpectedEvents(
                              Slice(Completed(lastSegs'),
                                    Len(Completed(lastSegs))),
                              Len(Completed(lastSegs)), emitted) ]_vars

\* [a] then [a, b]: two growing messages, 'a' then 'b' emitted
C11_Witness ==
    /\ growth = 2
    /\ lastEvent = "segments"
    /\ Len(emitted) = 2
    /\ emitted[1] = [text |-> <<"a">>, pos |-> 0]
    /\ emitted[2] = [text |-> <<"b">>, pos |-> 1]
    /\ lastEmits = << Emit("transcription", <<"b">>) >>

\* C12: a SERVER_READY message received while initialize() is pending (the
\* handshake was sent; no timeout, error or closure settled it before) makes
\* initialize() succeed with the session ready, and initialize() succeeds in
\* no other way.
C12_ResolvesOnServerReady ==
    [][ /\ (pcInit = "pending" /\ lastEvent' = "ready")
            => /\ pcInit' = "resolved"
               /\ isRunning' /\ serverReady'
               /\ wire # <<>> /\ wire[1] = "config"
        /\ (pcInit' = "resolved" /\ pcInit # "resolved")
            => (pcInit = "pending" /\ lastEvent' = "ready")
        /\ (pcInit' = "created" /\ pcInit # "created")
            => pcInit = "resolved"
      ]_vars

\* initialize() has just succeeded on an open, never closed session
C12_Witness ==
    /\ pcInit = "resolved"
    /\ lastEvent = "ready"
    /\ isRunning /\ serverReady /\ wsSet
    /\ sock = "OPEN"
    /\ ~closedG

\* the ws.send frames of the wire, without the ws.close calls
Frames(w) == SelectSeq(w, LAMBDA f : f # "close")

\* occurrences of f in w
Count(w, f) == Len(SelectSeq(w, LAMBDA g : g = f))

\* C13: the handshake is written at the moment the transport opens, at most
\* once, and it is the first frame on the transport (before any audio frame
\* and any END_OF_AUDIO marker).
C13_HandshakeFirstAndOnce ==
    /\ [](Frames(wire) # <<>> => Frames(wire)[1] = "config")
    /\ [](Count(wire, "config") <= 1)
    /\ [](sock = "OPEN" => Count(wire, "config") = 1)
    /\ [][ (sock' = "OPEN" /\ sock # "OPEN")
              => wire' = Append(wire, "config") ]_vars

\* handshake, then audio, then the end marker
C13_Witness ==
    /\ Len(wire) >= 3
    /\ wire[1] = "config"
    /\ wire[2] = "audio"
    /\ Count(wire, "END_OF_AUDIO") = 1

\* C14: close() called on a ready session whose transport is open (and does
\* not fail) writes END_OF_AUDIO and then closes the transport, in that
\* order; once the transport was closed by close() nothing more is written.
C14_CloseWritesEndThenCloses ==
    /\ [][ (readyG /\ wsSet /\ sock = "OPEN" /\ lastEvent' = "close")
              => /\ wire' = wire \o << "END_OF_AUDIO", "close" >>
                 /\ sock' = "CLOSING" ]_vars
    /\ [](Count(wire, "close") > 0 => wire[Len(wire)] = "close")

\* close() ended a session that had sent audio, and a later sendRealtimeInput
\* wrote nothing
C14_Witness ==
    /\ lastEvent = "send"
    /\ closedG
    /\ wire = << "config", "audio", "END_OF_AUDIO", "close" >>

\* the state of the session object and of its transport
sessionState ==
    << pcInit, wsSet, sock, isRunning, serverReady, timeout,
       emittedCompletedCount, lastEmittedText, listeners, wire >>

\* steps that run the body of close(): a call of close() or a DISCONNECT
\* message, ending normally or with a throwing transport
CloseEvents == {"close", "closeThrew", "disconnect", "disconnectThrew"}

\* C15: over all the close() calls of a session (DISCONNECT included)
\* END_OF_AUDIO is written at most once and the transport is closed at most
\* once; a close() made after an earlier close() writes nothing, closes
\* nothing and leaves the state of the session as it is.
C15_CloseIdempotent ==
    /\ [](Count(wire, "END_OF_AUDIO") <= 1)
    /\ [](Count(wire, "close") <= 1)
    /\ [][ (closeCalled /\ lastEvent' \in CloseEvents)
              => UNCHANGED sessionState ]_vars

\* C16: close() never raises, also when ws.send or ws.close throws (the rest
\* of close() still runs); when this.ws is null it performs no network action.
C16_CloseNeverRaises ==
    /\ [](~closeRaised)
    /\ [](lastEvent \in {"closeThrew", "disconnectThrew"}
             => (~wsSet /\ listeners = {} /\ ~isRunning))
    /\ [][ (lastEvent' \in CloseEvents /\ ~wsSet)
              => (wire' = wire /\ sock' = sock) ]_vars

\* the transport threw inside close() on an open connection
C16_Witness ==
    /\ lastEvent = "closeThrew"
    /\ sock = "OPEN"
    /\ "config" \in { wire[i] : i \in 1..Len(wire) }
    /\ ~wsSet
    /\ ~closeRaised

\* C17: close() leaves no listener registered, whatever the transport did;
\* after a close() made once the subscriber's handlers were registered, no
\* later transcription, error or close event invokes a handler.
C17_CloseDeregisters ==
    /\ [](lastEvent \in CloseEvents => listeners = {})
    /\ [](closedAfterAttach => listeners = {})
    /\ [][ closedAfterAttach
              => \A i \in 1..Len(lastEmits') :
                    lastEmits'[i].ev \notin listeners ]_vars

\* a late segments message emitted a transcription after close()
C17_Witness ==
    /\ closedAfterAttach
    /\ lastEvent = "segments"
    /\ Len(lastEmits) > 0
    /\ listeners = {}

\* C18: every closure of the transport makes the session emit a close event
\* carrying the closure code and leaves isRunning and serverReady false.
C18_ClosureEmitsClose ==
    /\ [][ (sock' = "CLOSED" /\ sock # "CLOSED")
              => /\ lastEvent' = "closed"
                 /\ closeCode' \in Codes
                 /\ lastEmits' # <<>>
                 /\ lastEmits'[1] = Emit("close", closeCode')
                 /\ ~isRunning'
                 /\ ~serverReady' ]_vars
    /\ [](sock = "CLOSED" => (~isRunning /\ ~serverReady))

\* the transport closed normally after an explicit close()
C18_Witness ==
    /\ lastEvent = "closed"
    /\ ~wsSet
    /\ Count(wire, "close") = 1
    /\ lastEmits = << Emit("close", 1000) >>
    /\ ~isRunning /\ ~serverReady

\* C19: a transport error on a ready session is emitted as an error event
\* that reaches a handler, and after the error handler has run the session is
\* no longer ready and sendRealtimeInput writes nothing.
C19_ErrorClosesSession ==
    [][ /\ (readyG /\ lastEvent' = "error")
            => /\ lastEmits' # <<>>
               /\ lastEmits'[1] = Emit("error", "ws")
               /\ ~uncaught'
               /\ ~(isRunning' /\ serverReady')
        /\ sock = "FAILED" => AudioFrames(wire') = AudioFrames(wire)
      ]_vars

\* C20: a DISCONNECT message on a connected session runs close():
\* END_OF_AUDIO if the transport is open, then the transport is closed, and
\* the session is not ready; a WAIT notice changes nothing of the session.
C20_DisconnectClosesWaitIgnored ==
    [][ /\ (wsSet /\ lastEvent' = "disconnect")
            => /\ wire' = wire
                          \o (IF sock = "OPEN"
                              THEN << "END_OF_AUDIO" >> ELSE <<>>)
                          \o << "close" >>
               /\ sock' = "CLOSING"
               /\ ~isRunning' /\ ~readyG' /\ ~wsSet'
        /\ lastEvent' = "wait"
            => UNCHANGED << sessionState, uncaught, readyG, closedG >>
      ]_vars

\* a DISCONNECT message has just closed a session that had sent audio
C20_Witness ==
    /\ lastEvent = "disconnect"
    /\ wire = << "config", "audio", "END_OF_AUDIO", "close" >>
    /\ sock = "CLOSING"
    /\ ~isRunning

\* C21: an inbound message that fails to decode emits no event, does not
\* close the transport and leaves the ready flags, emittedCompletedCount,
\* lastEmittedText and the rest of the session as they are, so what follows
\* is processed as if the message had not arrived.
C21_MalformedIgnored ==
    [][ lastEvent' = "malformed"
           => /\ lastEmits' = <<>>
              /\ UNCHANGED << sessionState, emitted, uncaught, readyG,
                              closedG, lastSegs >> ]_vars

\* a malformed message arrived on a ready session that had emitted a text
C21_Witness ==
    /\ lastEvent = "malformed"
    /\ readyG
    /\ sock = "OPEN"
    /\ emittedCompletedCount = 1
    /\ Len(emitted) = 1

\* strictly increasing maps from 1..n into 1..m
IncreasingMaps(n, m) ==
    { f \in [1..n -> 1..m] : \A i \in 1..n : \A j \in 1..n : i < j => f[i] < f[j] }

\* C24: the transcription events emitted for one message carry, in list
\* order, the trimmed non-empty texts of segments of that message that are
\* marked completed.
C24_EmitsCompletedTrimmedInOrder ==
    [][ lastEvent' = "segments"
           => /\ Len(lastEmits') = Len(emitted') - Len(emitted)
              /\ \E f \in IncreasingMaps(Len(lastEmits'), Len(lastSegs')) :
                    \A i \in 1..Len(lastEmits') :
                       /\ lastSegs'[f[i]].completed
                       /\ lastEmits'[i] = Emit("transcription",
                                               Trim(lastSegs'[f[i]].text))
                       /\ lastEmits'[i].arg # <<>>
                       /\ emitted'[Len(emitted) + i].text = lastEmits'[i].arg
      ]_vars

\* a message with a completed ' a' and a segment not completed emitted 'a'
\* once
C24_Witness ==
    /\ lastEvent = "segments"
    /\ Len(lastSegs) = 2
    /\ lastSegs[1] = [text |-> << " ", "a" >>, completed |-> TRUE]
    /\ ~lastSegs[2].completed
    /\ lastEmits = << Emit("transcription", << "a" >>) >>

\* the fixed table of the handshake's model field, 'small' for the rest
ClaimedModel(m) ==
    CASE m = "whisper-tiny"   -> "tiny"
      [] m = "whisper-base"   -> "base"
      [] m = "whisper-small"  -> "small"
      [] m = "whisper-medium" -> "medium"
      [] OTHER                -> "small"

\* C22: the model field of the handshake is the table's mapping of the
\* session's model identifier, and 'small' for every identifier that is not
\* in the table.
C22_HandshakeModelMapped ==
    configModel # NoValue => configModel = ClaimedModel(model)

\* C23: a buffer of N int16 samples resamples to floor(N * 16000 / 24000)
\* samples, N being floor(bytes / 2): the trailing byte of an odd-length
\* buffer does not count.
C23_OutputLength ==
    outSamples = ((pcmBytes \div 2) * TARGET_SAMPLE_RATE) \div INPUT_SAMPLE_RATE


\* C25: in both repositories a stored preset changes only in a call made by
\* its owner; an update or delete of a preset that does not exist or belongs
\* to another user fails with the not-found-or-permission-denied error and
\* leaves the presets as they are; the owner's call succeeds and has its
\* effect, whatever the other users do in between.
C25_OnlyOwnerChanges ==
    [][ /\ \A id \in PresetIds :
             (presets[id] # Absent /\ presets'[id] # presets[id])
                => /\ actor'.uid = presets[id].uid
                   /\ actor'.id = id
                   /\ outcome' = "ok"
        /\ (actor'.op \in {"update", "delete"} /\ ~Owns(actor'.uid, actor'.id))
              => (outcome' = "denied" /\ presets' = presets
                  /\ pending' = pending)
        /\ (actor'.op \in {"update", "updateWrite"} /\ outcome' = "ok")
              => presets' = [presets EXCEPT ![actor'.id].title = UpdatedTitle]
        /\ (actor'.op \in {"delete", "deleteWrite"} /\ outcome' = "ok")
              => presets' = [presets EXCEPT ![actor'.id] = Absent]
        /\ outcome' # "notFoundAtWrite"
      ]_vars

\* in Firestore, u2's update of u1's preset was refused while u1's own
\* update of it was between its read and its write
C25_Witness ==
    /\ backend = "firestore"
    /\ presets[1] = [uid |-> "u1", title |-> CreatedTitle]
    /\ pending["u1"] = [op |-> "update", id |-> 1]
    /\ actor = [uid |-> "u2", op |-> "update", id |-> 1]
    /\ outcome = "denied"
====
